---- MODULE Spec2Model ----
(***************************************************************************)
(* Model of the prediction cache of the Commission Work Accounting         *)
(* application: class ML_MODEL of main.py (predict, incrementDbChange-     *)
(* Counter, markDirtyIDs, reset and their private helpers) together with   *)
(* the handlers of DatabaseTab and MaintenanceTab that mutate the jobs     *)
(* table and notify the ML_MODEL instance.                                 *)
(*                                                                         *)
(* The jobs table is the function store (id -> row).  The two files        *)
(* modelConfig.json and model.pkl are the variables modelConfig and        *)
(* modelPkl; they survive Restart, the in-memory fields do not.            *)
(* predict is a sequence of steps tracked by pc, so that a process         *)
(* termination between two of its writes is a reachable state.             *)
(* A failed query of predict opens the QMessageBox of error(): the call is *)
(* suspended in msgBox.exec(), whose event loop still delivers a queued    *)
(* QTimer.singleShot callback, and sys.exit(1) follows when the box is     *)
(* closed.                                                                 *)
(***************************************************************************)
EXTENDS Integers, Sequences, FiniteSets, TLC

\* ------------------------------------------------------------------ bounds

\* ids of the jobs table are 1..MaxID
MaxID == 2
\* the largest dbChangeCounter the retrain decision is tried on
MaxPolicyCounter == 21
\* the values of lastTrainedRowCount the retrain decision is tried on
PolicyRowCounts == {0, 1, 5, 10, 100}
\* dbChangeCounter is capped at MaxCounter by the guards of the handlers
MaxCounter == 2

IDs == 1..MaxID
\* the values of the columns: the categorical feature takes two values and
\* carries the variation of the features, the numeric feature takes one
JobTypes == {"a", "b"}
HoursValues == {8}
\* non-NULL values of the pay column; all are 0 or a power of ten
PayValues == {0, 10}

\* ------------------------------------------------------------ value shapes

\* SQL NULL / Python None in the pay column: pay is <<>> or <<p>>
NULL == << >>
PayColumn == {NULL} \cup {<<p>> : p \in PayValues}

Rows == [jobType : JobTypes, hoursWorked : HoursValues, pay : PayColumn]

\* self.model = None
None == [fitted |-> FALSE, trainedOn |-> << >>]

\* a file that does not exist (os.path.exists is False)
NoConfigFile == [exists |-> FALSE, dbChangeCounter |-> 0, lastTrainedRowCount |-> 0]
\* modelConfig.json as a write that did not finish leaves it: open(path, "w")
\* has emptied the file and json.dump has not written the whole document; the
\* two fields, which the file does not hold, are written -1 here
TruncatedConfigFile == [exists |-> TRUE, dbChangeCounter |-> -1, lastTrainedRowCount |-> -1]
NoPklFile == [exists |-> FALSE, content |-> None]
\* model.pkl as a write of joblib.dump that did not finish leaves it: the
\* file is there and holds no model joblib.load can read
TruncatedPklFile == [exists |-> TRUE, content |-> None]

\* self.predictionCache = {}
EmptyCache == [id \in {} |-> None]

NoFetch == [train |-> FALSE, all |-> FALSE, byIDs |-> {}]
NoEntry == [cached |-> {}, marked |-> {}]
NoCall == [valid |-> FALSE, ids |-> {}, result |-> EmptyCache]

VARIABLES
    store,            \* the jobs table: id -> [jobType, hoursWorked, pay]
    model,            \* self.model
    predictionCache,  \* self.predictionCache: id -> predicted pay
    modelConfig,      \* the file ./modelConfig.json
    modelPkl,         \* the file ./model.pkl
    pc,               \* position of the running predict call, "idle", "errorBox" or "crashed"
    requestedIDs,     \* argument of the running predict call
    renderPending,    \* a QTimer.singleShot(0, renderTable) is queued
    exc,              \* the error that ends the process: an uncaught exception, or
                      \* "DatabaseError" from the moment error(terminate=True) is called
    path,             \* which of the three cases the running call took
    fetchLog,         \* the queries the running call has sent to the jobs table
    prev,             \* ids and result of the last returned call, if nothing happened since
    entry,            \* what the running call found on entry: ids cached, ids marked
    marked,           \* ids marked dirty and not recomputed since
    afterReset        \* reset() ran and no predict call has finished since

vars == <<store, model, predictionCache, modelConfig, modelPkl, pc, requestedIDs,
          renderPending, exc, path, fetchLog, prev, entry, marked, afterReset>>

StoreIDs == DOMAIN store

\* ---------------------------------------------------------------- helpers

RECURSIVE SortedIDs(_)
\* the ids of S in ascending order (the order in which the table is read)
SortedIDs(S) ==
    IF S = {} THEN << >>
    ELSE LET m == CHOOSE x \in S : \A y \in S : x <= y
         IN <<m>> \o SortedIDs(S \ {m})

RECURSIVE Log10(_)
\* np.log of a power of ten, in units of ln(10)
Log10(p) == IF p <= 1 THEN 0 ELSE 1 + Log10(p \div 10)

RECURSIVE Insert(_, _)
Insert(x, s) ==
    IF s = << >> THEN <<x>>
    ELSE IF x <= Head(s) THEN <<x>> \o s
    ELSE <<Head(s)>> \o Insert(x, Tail(s))

RECURSIVE Sort(_)
Sort(s) == IF s = << >> THEN << >> ELSE Insert(Head(s), Sort(Tail(s)))

\* 4 * Series.quantile(k/4) with pandas' default linear interpolation,
\* for a non-empty sequence of integers
Quantile4(s, k) ==
    LET srt == Sort(s)
        n == Len(srt)
        lo == (k * (n - 1)) \div 4
        r == (k * (n - 1)) % 4
    IN IF r = 0 THEN 4 * srt[lo + 1]
       ELSE 4 * srt[lo + 1] + r * (srt[lo + 2] - srt[lo + 1])

\* mutant: no row is dropped as an outlier
InlierRowsKeepingAll(rows) == rows

\* rows kept by the IQR filter of _train
InlierRows(rows) ==
    IF rows = << >> THEN << >>
    ELSE LET logs == [i \in 1..Len(rows) |-> rows[i].logPay]
             Q1 == Quantile4(logs, 1)
             Q3 == Quantile4(logs, 3)
             IQR == Q3 - Q1
             lowerBound == 2 * Q1 - 3 * IQR
             upperBound == 2 * Q3 + 3 * IQR
             inside(row) == 8 * row.logPay >= lowerBound /\ 8 * row.logPay <= upperBound
         IN SelectSeq(rows, inside)

\* the rows SELECT job_type, hours_worked, pay FROM jobs returns
FetchFeaturesAndLabel(st) ==
    LET ids == SortedIDs(DOMAIN st)
    IN [i \in 1..Len(ids) |-> st[ids[i]]]

\* the data frame _train fits on: NULL and zero pay dropped, log taken,
\* outliers dropped
TrainingFrame(st) ==
    LET df == FetchFeaturesAndLabel(st)
        notNull(row) == row.pay # NULL
        notZero(row) == row.pay[1] # 0
        paid == SelectSeq(SelectSeq(df, notNull), notZero)
        logged == [i \in 1..Len(paid) |->
                     [jobType |-> paid[i].jobType,
                      hoursWorked |-> paid[i].hoursWorked,
                      logPay |-> Log10(paid[i].pay[1])]]
    IN InlierRows(logged)

\* the pipeline fitted on a data frame: a function of the frame alone
\* (DecisionTreeRegressor with random_state = 42)
Fit(df) == [fitted |-> TRUE, trainedOn |-> df]

\* np.exp(self.model.predict(features)) for one row: determined by the
\* fitted model and the two feature columns of the row
PredictedPay(m, row) ==
    [by |-> m.trainedOn, jobType |-> row.jobType, hoursWorked |-> row.hoursWorked]

\* _readModelConfigFilepath, lines 316-318: json.load raises on a file that
\* does not hold a whole document, and nothing catches it
ConfigReadRaises(cfg) == cfg.exists /\ cfg.dbChangeCounter < 0

\* mutant: reading the file zeroes it
ReadModelConfigResetting(cfg) ==
    [exists |-> TRUE, dbChangeCounter |-> 0, lastTrainedRowCount |-> 0]

\* _readModelConfigFilepath: the file's content, a zeroed file being
\* created when there is none
ReadModelConfig(cfg) ==
    IF cfg.exists THEN cfg
    ELSE [exists |-> TRUE, dbChangeCounter |-> 0, lastTrainedRowCount |-> 0]

\* mutant: a load of exactly 0.2 triggers the retrain too
RetrainDueAtThreshold(cfg) ==
    IF cfg.lastTrainedRowCount > 0
    THEN 5 * cfg.dbChangeCounter >= cfg.lastTrainedRowCount
    ELSE FALSE

\* mutant: the check for a missing model comes first, so a retrain is due
\* only when a model is held
RetrainDueOnlyWithModel(cfg) ==
    IF cfg.lastTrainedRowCount > 0 /\ model # None
    THEN 5 * cfg.dbChangeCounter > cfg.lastTrainedRowCount
    ELSE FALSE

\* _calculateRetrainLoadFactor() > 0.2 on the content read
RetrainDue(cfg) ==
    IF cfg.lastTrainedRowCount > 0
    THEN 5 * cfg.dbChangeCounter > cfg.lastTrainedRowCount
    ELSE FALSE

\* mutant: the counter is incremented by one whatever x is
IncrementedByOne(cfg, x) ==
    [ReadModelConfig(cfg) EXCEPT !.dbChangeCounter = @ + 1]

\* the file after incrementDbChangeCounter(x)
Incremented(cfg, x) ==
    [ReadModelConfig(cfg) EXCEPT !.dbChangeCounter = @ + x]

\* mutant: marking dirty leaves the cache as it is
WithoutIDsKeepingAll(cache, ids) == cache

\* mutant: marking dirty empties the cache
WithoutIDsClearing(cache, ids) == EmptyCache

\* the cache after markDirtyIDs(ids)
WithoutIDs(cache, ids) == [id \in (DOMAIN cache) \ ids |-> cache[id]]

\* mutant: rows without a pay get no entry
FullCacheOfLabelledRows(m, st) ==
    [id \in {i \in DOMAIN st : st[i].pay # NULL} |-> PredictedPay(m, st[id])]

\* the cache after _predictAndCacheEverything on a non-empty table
FullCache(m, st) == [id \in DOMAIN st |-> PredictedPay(m, st[id])]

\* mutant: the cache is rebuilt from the dirty ids alone
PatchedCacheReplacing(cache, m, st, dirtyIDs) ==
    [id \in dirtyIDs \cap DOMAIN st |-> PredictedPay(m, st[id])]

\* the cache after _predictAndCacheDirtyIDs(dirtyIDs)
PatchedCache(cache, m, st, dirtyIDs) ==
    LET found == dirtyIDs \cap DOMAIN st
    IN [id \in (DOMAIN cache) \cup found |->
          IF id \in found THEN PredictedPay(m, st[id]) ELSE cache[id]]

TypeOK ==
    /\ DOMAIN store \subseteq IDs
    /\ \A id \in DOMAIN store : store[id] \in Rows
    /\ model.fitted \in BOOLEAN
    /\ DOMAIN predictionCache \subseteq IDs
    /\ modelConfig.exists \in BOOLEAN
    /\ modelConfig.dbChangeCounter \in -1..MaxCounter
    /\ modelConfig.lastTrainedRowCount \in -1..MaxID
    /\ modelPkl.exists \in BOOLEAN
    /\ pc \in {"idle", "predict", "train", "dump", "writeConfig", "predictAll",
               "dirty", "return", "errorBox", "crashed"}
    /\ requestedIDs \subseteq IDs
    /\ renderPending \in BOOLEAN
    /\ exc \in {"none", "AttributeError", "ValueError", "KeyError", "UnpicklingError",
                "JSONDecodeError", "DatabaseError", "SystemExit", "Killed"}
    /\ path \in {"none", "retrain", "cold", "incremental"}
    /\ marked \subseteq IDs
    /\ afterReset \in BOOLEAN

\* ------------------------------------------------------------------- Init

\* a fresh installation: empty jobs table, no files, ML_MODEL.__init__ done
Init ==
    /\ store = [id \in {} |-> CHOOSE r \in Rows : TRUE]
    /\ model = None
    /\ predictionCache = EmptyCache
    /\ modelConfig = NoConfigFile
    /\ modelPkl = NoPklFile
    /\ pc = "idle"
    /\ requestedIDs = {}
    /\ renderPending = FALSE
    /\ exc = "none"
    /\ path = "none"
    /\ fetchLog = NoFetch
    /\ prev = NoCall
    /\ entry = NoEntry
    /\ marked = {}
    /\ afterReset = FALSE

\* ---------------------------------------------------------------- predict

\* what the ghost variables of a call are when no call is running
CallGhostsCleared ==
    /\ path' = "none"
    /\ fetchLog' = NoFetch
    /\ entry' = NoEntry
    /\ requestedIDs' = {}

\* mutant: the row count is written, the change counter is kept
ConfigAfterTrainKeepingCounter(df) ==
    [exists |-> TRUE, dbChangeCounter |-> modelConfig.dbChangeCounter,
     lastTrainedRowCount |-> Len(df)]

\* mutant: the row count written is that of the jobs table
ConfigAfterTrainCountingAllRows(df) ==
    [exists |-> TRUE, dbChangeCounter |-> 0, lastTrainedRowCount |-> Cardinality(StoreIDs)]

\* the file _train writes after a fit on df
ConfigAfterTrain(df) ==
    [exists |-> TRUE, dbChangeCounter |-> 0, lastTrainedRowCount |-> Len(df)]

\* where control is once a predict call has returned to its caller and the
\* caller to the event loop: the loop of the application, or the loop of the
\* QMessageBox of error() when the call ran from a callback delivered there
CallerResumes == IF exc = "DatabaseError" THEN "errorBox" ELSE "idle"

\* mutant: the guard clause of predict is missing
GuardClauseMissing(ids) == FALSE

\* predict, lines 133-134: do not predict an empty dataset
GuardClause(ids) == ids = {}

\* predict, line 149: joblib.load raises on a file that holds no readable
\* model, and nothing catches it
PklLoadRaises(pkl) == pkl.exists /\ pkl.content = None

\* predict, lines 130-162: the guard clause and the choice among the three
\* cases; case 2 loads model.pkl here when the file exists
predict ==
    /\ pc = "predict"
    /\ IF GuardClause(requestedIDs)
       THEN /\ pc' = CallerResumes
            /\ prev' = [valid |-> TRUE, ids |-> {}, result |-> EmptyCache]
            /\ afterReset' = FALSE
            /\ CallGhostsCleared
            /\ UNCHANGED <<model, modelConfig, exc>>
       ELSE IF ConfigReadRaises(modelConfig)
       THEN /\ pc' = "crashed"
            /\ exc' = "JSONDecodeError"
            /\ UNCHANGED <<model, modelConfig, requestedIDs, path, fetchLog, prev,
                           afterReset, entry>>
       ELSE /\ modelConfig' = ReadModelConfig(modelConfig)
            /\ fetchLog' = NoFetch
            /\ entry' = [cached |-> requestedIDs \cap DOMAIN predictionCache,
                          marked |-> requestedIDs \cap marked]
            /\ UNCHANGED <<requestedIDs, prev, afterReset>>
            /\ IF RetrainDue(modelConfig')
               THEN /\ path' = "retrain"
                    /\ pc' = "train"
                    /\ UNCHANGED <<model, exc>>
               ELSE IF model = None
               THEN /\ path' = "cold"
                    /\ IF PklLoadRaises(modelPkl)
                       THEN /\ pc' = "crashed"
                            /\ exc' = "UnpicklingError"
                            /\ UNCHANGED model
                       ELSE IF modelPkl.exists
                       THEN /\ model' = modelPkl.content
                            /\ pc' = "predictAll"
                            /\ UNCHANGED exc
                       ELSE /\ pc' = "train"
                            /\ UNCHANGED <<model, exc>>
               ELSE /\ path' = "incremental"
                    /\ pc' = IF requestedIDs \subseteq DOMAIN predictionCache
                             THEN "return" ELSE "dirty"
                    /\ UNCHANGED <<model, exc>>
    /\ UNCHANGED <<store, predictionCache, modelPkl, renderPending, marked>>

\* mutant: the guard clause is missing
TrainIsNeverSkipped(df) == FALSE

\* _train, lines 264-268: do not train on an empty data frame
TrainIsSkipped(df) == Len(df) = 0

\* _train, lines 229-293: fetch, preprocess, guard clause, fit
train ==
    /\ pc = "train"
    /\ fetchLog' = [fetchLog EXCEPT !.train = TRUE]
    /\ LET df == TrainingFrame(store)
       IN IF TrainIsSkipped(df)
          THEN /\ pc' = "predictAll"
               /\ UNCHANGED model
          ELSE /\ model' = Fit(df)
               /\ pc' = "dump"
    /\ UNCHANGED <<store, predictionCache, modelConfig, modelPkl, requestedIDs,
                   renderPending, exc, path, prev, marked, afterReset, entry>>

\* _train, line 297: joblib.dump(self.model, self.modelPklFilepath)
dump ==
    /\ pc = "dump"
    /\ modelPkl' = [exists |-> TRUE, content |-> model]
    /\ pc' = "writeConfig"
    /\ UNCHANGED <<store, model, predictionCache, modelConfig, requestedIDs,
                   renderPending, exc, path, fetchLog, prev, marked, afterReset, entry>>

\* _train, line 297, with the process ended while joblib.dump is writing:
\* the file is left truncated
dumpKilled ==
    /\ pc = "dump"
    /\ modelPkl' = TruncatedPklFile
    /\ pc' = "crashed"
    /\ exc' = "Killed"
    /\ UNCHANGED <<store, model, predictionCache, modelConfig, requestedIDs,
                   renderPending, path, fetchLog, prev, marked, afterReset, entry>>

\* _train, lines 301-302: len(label) is the number of rows fitted on
writeConfig ==
    /\ pc = "writeConfig"
    /\ modelConfig' = ConfigAfterTrain(model.trainedOn)
    /\ pc' = "predictAll"
    /\ UNCHANGED <<store, model, predictionCache, modelPkl, requestedIDs,
                   renderPending, exc, path, fetchLog, prev, marked, afterReset, entry>>

\* _train, lines 301-302, with the process ended while
\* _writeModelConfigFilepath is writing
writeConfigKilled ==
    /\ pc = "writeConfig"
    /\ modelConfig' = TruncatedConfigFile
    /\ pc' = "crashed"
    /\ exc' = "Killed"
    /\ UNCHANGED <<store, model, predictionCache, modelPkl, requestedIDs,
                   renderPending, path, fetchLog, prev, marked, afterReset, entry>>

\* _predictAndCacheEverything: self.model.predict raises AttributeError
\* when self.model is None
predictAndCacheEverything ==
    /\ pc = "predictAll"
    /\ fetchLog' = [fetchLog EXCEPT !.all = TRUE]
    /\ IF StoreIDs = {}
       THEN /\ pc' = "return"
            /\ UNCHANGED <<predictionCache, exc, marked>>
       ELSE IF model = None
       THEN /\ pc' = "crashed"
            /\ exc' = "AttributeError"
            /\ UNCHANGED <<predictionCache, marked>>
       ELSE /\ predictionCache' = FullCache(model, store)
            /\ marked' = marked \ StoreIDs
            /\ pc' = "return"
            /\ UNCHANGED exc
    /\ UNCHANGED <<store, model, modelConfig, modelPkl, requestedIDs,
                   renderPending, path, prev, afterReset, entry>>

\* _predictAndCacheDirtyIDs(dirtyIDs) with dirtyIDs the requested ids that
\* are not cached.  When the query returns no row, the pipeline is asked to
\* predict over an empty frame: it either raises ValueError or returns an
\* empty array, depending on the library
predictAndCacheDirtyIDs ==
    /\ pc = "dirty"
    /\ LET dirtyIDs == requestedIDs \ DOMAIN predictionCache
       IN /\ fetchLog' = [fetchLog EXCEPT !.byIDs = dirtyIDs]
          /\ \/ /\ dirtyIDs \cap StoreIDs = {}
                /\ pc' = "crashed"
                /\ exc' = "ValueError"
                /\ UNCHANGED <<predictionCache, marked>>
             \/ /\ predictionCache' = PatchedCache(predictionCache, model, store, dirtyIDs)
                /\ marked' = marked \ (dirtyIDs \cap StoreIDs)
                /\ pc' = "return"
                /\ UNCHANGED exc
    /\ UNCHANGED <<store, model, modelConfig, modelPkl, requestedIDs,
                   renderPending, path, prev, afterReset, entry>>

\* predict, lines 168-173: self.predictionCache[id] raises KeyError for an
\* id that is not cached
return ==
    /\ pc = "return"
    /\ IF requestedIDs \subseteq DOMAIN predictionCache
       THEN /\ pc' = CallerResumes
            /\ prev' = [valid |-> TRUE, ids |-> requestedIDs,
                        result |-> [id \in requestedIDs |-> predictionCache[id]]]
            /\ afterReset' = FALSE
            /\ CallGhostsCleared
            /\ UNCHANGED exc
       ELSE /\ pc' = "crashed"
            /\ exc' = "KeyError"
            /\ UNCHANGED <<requestedIDs, path, fetchLog, prev, afterReset, entry>>
    /\ UNCHANGED <<store, model, predictionCache, modelConfig, modelPkl,
                   renderPending, marked>>

\* the except clauses of _train, _predictAndCacheEverything and
\* _predictAndCacheDirtyIDs: the query of the step raises and
\* error(terminate=True) shows its QMessageBox; nothing has been assigned
queryFails ==
    /\ pc \in {"train", "predictAll", "dirty"}
    /\ pc' = "errorBox"
    /\ exc' = "DatabaseError"
    /\ afterReset' = FALSE
    /\ UNCHANGED <<store, model, predictionCache, modelConfig, modelPkl, requestedIDs,
                   renderPending, path, fetchLog, prev, marked, entry>>

\* mutant: error() is called with terminate = False; the box is closed and
\* the application goes on
errorBoxDismissed ==
    /\ pc = "errorBox"
    /\ pc' = "idle"
    /\ exc' = "none"
    /\ UNCHANGED <<store, model, predictionCache, modelConfig, modelPkl, requestedIDs,
                   renderPending, path, fetchLog, prev, marked, afterReset, entry>>

\* error, lines 63-64: the box is closed and sys.exit(1) ends the process
errorBoxClosed ==
    /\ pc = "errorBox"
    /\ pc' = "crashed"
    /\ exc' = "SystemExit"
    /\ UNCHANGED <<store, model, predictionCache, modelConfig, modelPkl, requestedIDs,
                   renderPending, path, fetchLog, prev, marked, afterReset, entry>>

\* ------------------------------------------------- the rest of the service

\* a caller of the ML_MODEL instance invokes predict(ids)
CallPredict(ids) ==
    /\ pc = "idle"
    /\ pc' = "predict"
    /\ requestedIDs' = ids
    /\ UNCHANGED <<store, model, predictionCache, modelConfig, modelPkl,
                   renderPending, exc, path, fetchLog, prev, marked, afterReset, entry>>

\* incrementDbChangeCounter(x)
incrementDbChangeCounter(x) ==
    /\ pc = "idle"
    /\ ReadModelConfig(modelConfig).dbChangeCounter + x <= MaxCounter
    /\ IF ConfigReadRaises(modelConfig)
       THEN /\ pc' = "crashed"
            /\ exc' = "JSONDecodeError"
            /\ UNCHANGED modelConfig
       ELSE /\ modelConfig' = Incremented(modelConfig, x)
            /\ UNCHANGED <<pc, exc>>
    /\ prev' = NoCall
    /\ UNCHANGED <<store, model, predictionCache, modelPkl, requestedIDs,
                   renderPending, path, fetchLog, marked, afterReset, entry>>

\* incrementDbChangeCounter with the process ended while
\* _writeModelConfigFilepath is writing
incrementDbChangeCounterKilled ==
    /\ pc = "idle"
    /\ ~ConfigReadRaises(modelConfig)
    /\ modelConfig' = TruncatedConfigFile
    /\ pc' = "crashed"
    /\ exc' = "Killed"
    /\ prev' = NoCall
    /\ UNCHANGED <<store, model, predictionCache, modelPkl, requestedIDs,
                   renderPending, path, fetchLog, marked, afterReset, entry>>

\* markDirtyIDs(ids)
markDirtyIDs(ids) ==
    /\ pc = "idle"
    /\ predictionCache' = WithoutIDs(predictionCache, ids)
    /\ marked' = marked \cup ids
    /\ prev' = NoCall
    /\ UNCHANGED <<store, model, modelConfig, modelPkl, pc, requestedIDs,
                   renderPending, exc, path, fetchLog, afterReset, entry>>

\* mutant: reset() leaves model.pkl on disk
ResetPklFileKept == modelPkl

\* mutant: reset() leaves the cache as it is
ResetCacheKept == predictionCache

\* the fields and files of the instance after reset()
ResetModel == None
ResetCache == EmptyCache
ResetConfigFile == NoConfigFile
ResetPklFile == NoPklFile

\* reset()
reset ==
    /\ pc = "idle"
    /\ model' = ResetModel
    /\ predictionCache' = ResetCache
    /\ modelConfig' = ResetConfigFile
    /\ modelPkl' = ResetPklFile
    /\ prev' = NoCall
    /\ afterReset' = TRUE
    /\ UNCHANGED <<store, pc, requestedIDs, renderPending, exc, path, fetchLog, marked, entry>>

\* the process ends (an uncaught exception, sys.exit, or the user closing
\* the window) and the program is started again: ML_MODEL.__init__
Restart ==
    /\ model' = None
    /\ predictionCache' = EmptyCache
    /\ pc' = "idle"
    /\ renderPending' = FALSE
    /\ exc' = "none"
    /\ prev' = NoCall
    /\ afterReset' = FALSE
    /\ CallGhostsCleared
    /\ UNCHANGED <<store, modelConfig, modelPkl, marked>>

\* ------------------------------------------------------------ the handlers

Columns == {"job_date", "job_name", "job_type", "hours_worked", "pay"}

\* what an accepted edit of column col may write
EditValues(col) ==
    CASE col = "job_type" -> JobTypes
      [] col = "hours_worked" -> HoursValues
      [] col = "pay" -> PayColumn
      [] OTHER -> {"text"}

\* the row after UPDATE jobs SET col = v
Updated(row, col, v) ==
    CASE col = "job_type" -> [row EXCEPT !.jobType = v]
      [] col = "hours_worked" -> [row EXCEPT !.hoursWorked = v]
      [] col = "pay" -> [row EXCEPT !.pay = v]
      [] OTHER -> row

\* mutant: an edit of the pay does not count as a change
CountsAsChangeFeaturesOnly(col) == col \in {"job_type", "hours_worked"}

\* sqlUpdateActions, lines 1729-1733: the columns that count as a change
CountsAsChange(col) == col \in {"job_type", "hours_worked", "pay"}

\* mutant: only an edit of the hours marks the id dirty
MarksDirtyHoursOnly(col) == col \in {"hours_worked"}

\* sqlUpdateActions, lines 1735-1738: the columns that mark the id dirty
MarksDirty(col) == col \in {"job_type", "hours_worked"}

\* DatabaseTab.renderTable / handleSaveToCsv: predictions are asked for the
\* ids sqlSelectActions returns under the current filters
renderTable ==
    \E ids \in SUBSET StoreIDs : CallPredict(ids)

\* the queued QTimer.singleShot(0, self.renderTable) fires: from the event
\* loop of the application, or from the loop msgBox.exec() runs while a
\* predict call is suspended in error()
timerFires ==
    /\ renderPending
    /\ pc \in {"idle", "errorBox"}
    /\ renderPending' = FALSE
    /\ pc' = "predict"
    /\ \E ids \in SUBSET StoreIDs : requestedIDs' = ids
    /\ path' = "none"
    /\ fetchLog' = NoFetch
    /\ entry' = NoEntry
    /\ UNCHANGED <<store, model, predictionCache, modelConfig, modelPkl,
                   exc, prev, marked, afterReset>>

\* sqlUpdateActions with an edit that passes the error checkings
sqlUpdateActions(id, col, v) ==
    /\ pc = "idle"
    /\ id \in StoreIDs
    /\ store' = [store EXCEPT ![id] = Updated(@, col, v)]
    /\ prev' = NoCall
    /\ IF CountsAsChange(col) /\ ConfigReadRaises(modelConfig)
       THEN /\ pc' = "crashed"
            /\ exc' = "JSONDecodeError"
            /\ UNCHANGED <<modelConfig, predictionCache, marked, renderPending>>
       ELSE /\ IF CountsAsChange(col)
               THEN /\ ReadModelConfig(modelConfig).dbChangeCounter + 1 <= MaxCounter
                    /\ modelConfig' = Incremented(modelConfig, 1)
               ELSE UNCHANGED modelConfig
            /\ IF MarksDirty(col)
               THEN /\ predictionCache' = WithoutIDs(predictionCache, {id})
                    /\ marked' = marked \cup {id}
               ELSE UNCHANGED <<predictionCache, marked>>
            /\ renderPending' = TRUE
            /\ UNCHANGED <<pc, exc>>
    /\ UNCHANGED <<model, modelPkl, requestedIDs, path, fetchLog, afterReset, entry>>

\* sqlUpdateActions with an edit the error checkings reject: the old value
\* is restored in the cell and the handler returns
sqlUpdateRejected ==
    /\ pc = "idle"
    /\ StoreIDs # {}
    /\ prev' = NoCall
    /\ UNCHANGED <<store, model, predictionCache, modelConfig, modelPkl, pc,
                   requestedIDs, renderPending, exc, path, fetchLog, marked, afterReset, entry>>

\* sqlInsertActions with the dialog accepted; the id is the one the table
\* assigns
sqlInsertActions(id, row) ==
    /\ pc = "idle"
    /\ id \notin StoreIDs
    /\ ReadModelConfig(modelConfig).dbChangeCounter + 1 <= MaxCounter
    /\ store' = [i \in StoreIDs \cup {id} |-> IF i = id THEN row ELSE store[i]]
    /\ prev' = NoCall
    /\ IF ConfigReadRaises(modelConfig)
       THEN /\ pc' = "crashed"
            /\ exc' = "JSONDecodeError"
            /\ UNCHANGED <<modelConfig, requestedIDs>>
       ELSE /\ modelConfig' = Incremented(modelConfig, 1)
            /\ pc' = "predict"
            /\ \E ids \in SUBSET (StoreIDs \cup {id}) : requestedIDs' = ids
            /\ UNCHANGED exc
    /\ UNCHANGED <<model, predictionCache, modelPkl, renderPending, path,
                   fetchLog, marked, afterReset, entry>>

\* sqlDeleteActions with the deletion of the selected rows confirmed
sqlDeleteActions(selectedIDs) ==
    /\ pc = "idle"
    /\ selectedIDs # {}
    /\ selectedIDs \subseteq StoreIDs
    /\ ReadModelConfig(modelConfig).dbChangeCounter + Cardinality(selectedIDs) <= MaxCounter
    /\ store' = [i \in StoreIDs \ selectedIDs |-> store[i]]
    /\ predictionCache' = WithoutIDs(predictionCache, selectedIDs)
    /\ marked' = marked \cup selectedIDs
    /\ prev' = NoCall
    /\ IF ConfigReadRaises(modelConfig)
       THEN /\ pc' = "crashed"
            /\ exc' = "JSONDecodeError"
            /\ UNCHANGED <<modelConfig, requestedIDs>>
       ELSE /\ modelConfig' = Incremented(modelConfig, Cardinality(selectedIDs))
            /\ pc' = "predict"
            /\ \E ids \in SUBSET (StoreIDs \ selectedIDs) : requestedIDs' = ids
            /\ UNCHANGED exc
    /\ UNCHANGED <<model, modelPkl, renderPending, path, fetchLog, afterReset, entry>>

\* handleAppendFromCsv: every row of the file is inserted, pay being a
\* number in each; nothing is said to the ML_MODEL instance
handleAppendFromCsv(newRows) ==
    /\ pc = "idle"
    /\ DOMAIN newRows # {}
    /\ DOMAIN newRows \cap StoreIDs = {}
    /\ \A id \in DOMAIN newRows : newRows[id].pay # NULL
    /\ store' = [i \in StoreIDs \cup DOMAIN newRows |->
                   IF i \in StoreIDs THEN store[i] ELSE newRows[i]]
    /\ prev' = NoCall
    /\ UNCHANGED <<model, predictionCache, modelConfig, modelPkl, pc, requestedIDs,
                   renderPending, exc, path, fetchLog, marked, afterReset, entry>>

\* handleClearDb with the deletion confirmed: the table is emptied, then
\* reset() is called
handleClearDb ==
    /\ pc = "idle"
    /\ StoreIDs # {}
    /\ store' = [i \in {} |-> store[i]]
    /\ model' = ResetModel
    /\ predictionCache' = ResetCache
    /\ modelConfig' = ResetConfigFile
    /\ modelPkl' = ResetPklFile
    /\ prev' = NoCall
    /\ afterReset' = TRUE
    /\ UNCHANGED <<pc, requestedIDs, renderPending, exc, path, fetchLog, marked, entry>>

\* ------------------------------------------------------------------- Next

Next ==
    \/ predict
    \/ train
    \/ dump
    \/ writeConfig
    \/ predictAndCacheEverything
    \/ predictAndCacheDirtyIDs
    \/ return
    \/ dumpKilled
    \/ writeConfigKilled
    \/ incrementDbChangeCounterKilled
    \/ queryFails
    \/ errorBoxClosed
    \/ \E ids \in SUBSET IDs : CallPredict(ids)
    \/ \E x \in 1..MaxCounter : incrementDbChangeCounter(x)
    \/ \E ids \in SUBSET IDs : markDirtyIDs(ids)
    \/ reset
    \/ Restart
    \/ renderTable
    \/ timerFires
    \/ \E id \in IDs, col \in Columns : \E v \in EditValues(col) : sqlUpdateActions(id, col, v)
    \/ sqlUpdateRejected
    \/ \E id \in IDs, row \in Rows : sqlInsertActions(id, row)
    \/ \E selectedIDs \in SUBSET IDs : sqlDeleteActions(selectedIDs)
    \/ \E S \in SUBSET IDs : \E newRows \in [S -> Rows] : handleAppendFromCsv(newRows)
    \/ handleClearDb

Spec == Init /\ [][Next]_vars

\* ------------------------------------------- the retrain decision on its own

\* the contents of modelConfig.json the decision is tried on
PolicyConfigs ==
    {NoConfigFile} \cup
    [exists : {TRUE}, dbChangeCounter : 0..MaxPolicyCounter,
     lastTrainedRowCount : PolicyRowCounts]

\* a started program with a one-row jobs table, any content of
\* modelConfig.json, and either no model at all or the model of that table
\* on disk and in memory
InitPolicy ==
    /\ store \in [{1} -> {r \in Rows : r.pay = <<10>>}]
    /\ modelConfig \in PolicyConfigs
    /\ \E held \in BOOLEAN :
          /\ model = IF held THEN Fit(TrainingFrame(store)) ELSE None
          /\ modelPkl = IF held THEN [exists |-> TRUE, content |-> model] ELSE NoPklFile
    /\ predictionCache = EmptyCache
    /\ pc = "idle"
    /\ requestedIDs = {}
    /\ renderPending = FALSE
    /\ exc = "none"
    /\ path = "none"
    /\ fetchLog = NoFetch
    /\ prev = NoCall
    /\ entry = NoEntry
    /\ marked = {}
    /\ afterReset = FALSE

NextPolicy ==
    \/ predict
    \/ train
    \/ dump
    \/ writeConfig
    \/ predictAndCacheEverything
    \/ predictAndCacheDirtyIDs
    \/ return
    \/ renderTable

SpecPolicy == InitPolicy /\ [][NextPolicy]_vars

\* ------------------------------------------- the filtering of _train on its own

\* the largest jobs table the filtering is tried on
MaxFilterRows == 5

\* the pays of that table: none, zero, and two that lie far apart
FilterPayColumn == {NULL, <<0>>, <<10>>, <<10000>>}

\* predict has taken case 2 on a first start, with no model.pkl, and is
\* about to call _train; the jobs table holds up to MaxFilterRows rows
InitFilter ==
    /\ \E n \in 0..MaxFilterRows :
          store \in [1..n -> [jobType : {"a"}, hoursWorked : {8}, pay : FilterPayColumn]]
    /\ model = None
    /\ predictionCache = EmptyCache
    /\ modelConfig = ReadModelConfig(NoConfigFile)
    /\ modelPkl = NoPklFile
    /\ pc = "train"
    /\ requestedIDs = {1}
    /\ renderPending = FALSE
    /\ exc = "none"
    /\ path = "cold"
    /\ fetchLog = NoFetch
    /\ prev = NoCall
    /\ entry = NoEntry
    /\ marked = {}
    /\ afterReset = FALSE

NextFilter ==
    \/ train
    \/ dump
    \/ writeConfig

SpecFilter == InitFilter /\ [][NextFilter]_vars

\* ------------------------------------------------------------------ claims

\* the cached value of id is what the model now held predicts from the
\* features the jobs table now holds for id
Fresh(id) ==
    /\ id \in StoreIDs
    /\ predictionCache[id] = PredictedPay(model, store[id])

C2_FittedBeforePredict ==
    /\ (pc = "predictAll" /\ StoreIDs # {}) => model.fitted
    /\ pc = "dirty" => model.fitted
    /\ exc # "AttributeError"

\* C3: after any sequence of inserts, edits, deletes, retrains, resets and
\* restarts (no query of predict having failed), every value predict is
\* about to return is the prediction of the model now held over the current
\* features of that row, and the cache holds no entry for an id that was
\* marked dirty and not recomputed since.
C3_CacheFresh ==
    /\ (pc = "return" /\ exc = "none") => \A id \in requestedIDs \cap DOMAIN predictionCache : Fresh(id)
    /\ marked \cap DOMAIN predictionCache = {}

\* C3 witness: a call returns the value of a row it had to recompute after
\* the row was marked dirty, next to a value it found cached.
C3_Witness ==
    /\ pc = "return"
    /\ entry.marked \cap StoreIDs # {}
    /\ entry.cached # {}
    /\ requestedIDs \subseteq DOMAIN predictionCache

\* the values the call at its return step is about to return
ValuesAtReturn == [id \in requestedIDs \cap DOMAIN predictionCache |-> predictionCache[id]]

\* the running call directly follows a returned call for the same ids
SecondCallInARow ==
    /\ pc = "return"
    /\ prev.valid
    /\ prev.ids = requestedIDs

\* C4 as stated: a predict(ids) that directly follows a predict(ids), with
\* no notification and no change of the jobs table in between, returns the
\* same values and sends no query to the jobs table.
C4_SecondCallIsPureCacheHit ==
    SecondCallInARow =>
        /\ ValuesAtReturn = prev.result
        /\ fetchLog = NoFetch

\* C4 amended: the second call returns the same values; it sends no query
\* unless a retrain is still due after the first call, which happens exactly
\* when no row of the table survives the filtering of _train (the first
\* call's retrain was skipped and left the counters alone).
C4_SecondCallRepeatsValues ==
    SecondCallInARow =>
        /\ ValuesAtReturn = prev.result
        /\ path # "retrain" => fetchLog = NoFetch
        /\ path = "retrain" => Len(TrainingFrame(store)) = 0

\* C4 witness: the second of two calls in a row is a cache hit.
C4_Witness ==
    /\ SecondCallInARow
    /\ requestedIDs # {}
    /\ path = "incremental"
    /\ fetchLog = NoFetch

\* the running call has sent a query that reads the row of id
Fetched(id) == fetchLog.all \/ id \in fetchLog.byIDs

\* C5 as stated: a requested id that was marked dirty is fetched again and
\* recomputed by the next predict, and predict never fetches again an id it
\* found cached.
C5_InvalidationLaw ==
    pc = "return" =>
        /\ \A x \in entry.marked : Fetched(x) /\ (x \in StoreIDs => Fresh(x))
        /\ \A y \in entry.cached : ~Fetched(y)

\* C5 amended: a requested id that was marked dirty is fetched again and
\* recomputed by the next predict; an id found cached is not fetched again
\* on the incremental path, and is fetched again, with every other row, when
\* a retrain is due.
C5_InvalidationLawOffRetrain ==
    pc = "return" =>
        /\ \A x \in entry.marked : Fetched(x) /\ (x \in StoreIDs => Fresh(x))
        /\ path = "incremental" => \A y \in entry.cached : ~Fetched(y)
        /\ path = "retrain" => fetchLog.all

\* C5 witness: one call on the incremental path fetches a marked id and
\* leaves a cached id alone.
C5_Witness ==
    /\ pc = "return"
    /\ path = "incremental"
    /\ entry.marked \cap StoreIDs # {}
    /\ entry.cached # {}
    /\ fetchLog.byIDs = entry.marked

\* a retrain is due on the file's content: lastTrainedRowCount > 0 and
\* dbChangeCounter / lastTrainedRowCount > 0.2
LoadAboveThreshold ==
    /\ modelConfig.exists
    /\ modelConfig.lastTrainedRowCount > 0
    /\ 5 * modelConfig.dbChangeCounter > modelConfig.lastTrainedRowCount

\* C6 as stated: a call that took the retrain path has fetched features and
\* labels of all rows, and the persisted dbChangeCounter is 0 when it
\* returns.
C6_RetrainResetsCounter ==
    (pc = "return" /\ path = "retrain") =>
        /\ fetchLog.train
        /\ modelConfig.dbChangeCounter = 0

\* C6 amended: when the load is above the threshold, predict with non-empty
\* ids takes the retrain path and fetches features and labels of all rows;
\* the persisted dbChangeCounter is 0 when it returns if at least one row
\* survived the filtering, and is left as it was, a retrain still being due,
\* if none did.
C6_RetrainResetsCounterAfterFit ==
    /\ [][(pc = "predict" /\ requestedIDs # {} /\ LoadAboveThreshold /\ pc' # "idle")
            => (pc' = "train" /\ path' = "retrain")]_vars
    /\ []((pc = "return" /\ path = "retrain") =>
            /\ fetchLog.train
            /\ Len(TrainingFrame(store)) > 0 =>
                  /\ modelConfig.dbChangeCounter = 0
                  /\ modelConfig.lastTrainedRowCount = Len(TrainingFrame(store))
            /\ Len(TrainingFrame(store)) = 0 => LoadAboveThreshold)

\* C6 witness: a retrain that fitted on at least one row reaches its return
\* step.
C6_Witness ==
    /\ pc = "return"
    /\ path = "retrain"
    /\ fetchLog.train
    /\ Len(TrainingFrame(store)) > 0
    /\ modelConfig.dbChangeCounter = 0

C8_ColdStartReturnsAndPersists ==
    (path = "cold" /\ requestedIDs \subseteq StoreIDs) =>
        /\ exc = "none"
        /\ pc = "return" =>
              /\ requestedIDs \subseteq DOMAIN predictionCache
              /\ modelConfig.exists
              /\ modelConfig.lastTrainedRowCount = Len(TrainingFrame(store))

\* the state of an instance that never trained
NeverTrained ==
    /\ model = None
    /\ predictionCache = EmptyCache
    /\ modelConfig = NoConfigFile
    /\ modelPkl = NoPklFile

\* C9: reset(), called on its own or by handleClearDb, leaves no model, an
\* empty cache and neither file; the first predict to reach its return step
\* after it took the cold-start path, fetched features and labels of all rows
\* and features of all rows, and the cache then holds exactly one freshly
\* computed entry per row of the table.
C9_ResetIsColdStart ==
    /\ [][(reset \/ handleClearDb) => NeverTrained']_vars
    /\ []((afterReset /\ pc = "return") =>
            /\ path = "cold"
            /\ fetchLog.train
            /\ fetchLog.all
            /\ DOMAIN predictionCache = StoreIDs
            /\ \A id \in DOMAIN predictionCache : Fresh(id))

\* C9 witness: the first predict after a reset() reaches its return step with
\* values for the requested rows.
C9_Witness ==
    /\ afterReset
    /\ pc = "return"
    /\ requestedIDs # {}
    /\ requestedIDs \subseteq DOMAIN predictionCache

\* C10: when no row survives the filtering, the training step changes
\* neither the model in memory, nor model.pkl, nor modelConfig.json, raises
\* nothing, and hands over to the predict-all step.
C10_SkippedTrainChangesNothing ==
    [][(train /\ Len(TrainingFrame(store)) = 0) =>
         /\ model' = model
         /\ modelPkl' = modelPkl
         /\ modelConfig' = modelConfig
         /\ exc' = exc
         /\ pc' = "predictAll"]_vars

\* C10 witness: a retrain found no row to train on while a model, its file
\* and a non-zero change counter were in place.
C10_Witness ==
    /\ pc = "predictAll"
    /\ path = "retrain"
    /\ fetchLog.train
    /\ Len(TrainingFrame(store)) = 0
    /\ model.fitted
    /\ modelPkl.exists
    /\ modelPkl.content = model
    /\ modelConfig.dbChangeCounter > 0
    /\ modelConfig.lastTrainedRowCount > 0

\* C11: predict([]) returns {} at once in every state, a retrain being due
\* or no model being held included: it sends no query to the jobs table and
\* changes neither the cache, nor the model, nor either file.
C11_EmptyRequestReturnsAtOnce ==
    [][(pc = "predict" /\ requestedIDs = {} /\ ~Restart) =>
         /\ pc' = CallerResumes
         /\ prev' = [valid |-> TRUE, ids |-> {}, result |-> EmptyCache]
         /\ fetchLog' = NoFetch
         /\ UNCHANGED <<store, model, predictionCache, modelConfig, modelPkl, exc>>]_vars

\* C11 witness: predict([]) has returned {} while a retrain was due and no
\* model was held.
C11_Witness ==
    /\ pc = "idle"
    /\ prev = [valid |-> TRUE, ids |-> {}, result |-> EmptyCache]
    /\ LoadAboveThreshold
    /\ model = None
    /\ StoreIDs # {}

\* C12 as stated: on the cold-start path a model.pkl that is missing, or
\* present and unreadable, counts as no model: predict goes on to fit from
\* all rows and raises nothing.
C12_UnreadableArtifactFallsBackToFit ==
    [][(/\ pc = "predict"
        /\ ~GuardClause(requestedIDs)
        /\ ~ConfigReadRaises(modelConfig)
        /\ ~RetrainDue(ReadModelConfig(modelConfig))
        /\ model = None
        /\ (~modelPkl.exists \/ modelPkl.content = None)
        /\ ~Restart)
       => (pc' = "train" /\ exc' = exc)]_vars

C14_IncrementAddsExactlyN ==
    [][\A x \in 1..MaxCounter :
          (incrementDbChangeCounter(x) /\ ~ConfigReadRaises(modelConfig)) =>
          /\ modelConfig'.exists
          /\ modelConfig'.dbChangeCounter = modelConfig.dbChangeCounter + x
          /\ modelConfig'.lastTrainedRowCount = modelConfig.lastTrainedRowCount
          /\ UNCHANGED <<store, model, predictionCache, modelPkl>>
          /\ ~modelConfig.exists =>
                modelConfig' = [exists |-> TRUE, dbChangeCounter |-> x,
                                lastTrainedRowCount |-> 0]]_vars

\* C14 witness: the record {MaxCounter, 0} stands where there was no file,
\* the jobs table being empty.
C14_Witness ==
    /\ pc = "idle"
    /\ prev = NoCall
    /\ StoreIDs = {}
    /\ ~afterReset
    /\ modelConfig = [exists |-> TRUE, dbChangeCounter |-> MaxCounter,
                      lastTrainedRowCount |-> 0]

\* C15: markDirtyIDs(ids) removes exactly the given ids from the cache: every
\* other entry keeps its value, an id that is not cached changes nothing and
\* raises nothing, and neither file nor the model is touched.
C15_MarkDirtyRemovesExactlyGiven ==
    [][\A ids \in SUBSET IDs : markDirtyIDs(ids) =>
          /\ DOMAIN predictionCache' = (DOMAIN predictionCache) \ ids
          /\ \A id \in DOMAIN predictionCache' : predictionCache'[id] = predictionCache[id]
          /\ UNCHANGED <<store, model, modelConfig, modelPkl, pc, exc>>]_vars

\* C15 witness: between two calls, a row of the table is marked dirty and
\* another entry is still cached.
C15_Witness ==
    /\ pc = "idle"
    /\ prev = NoCall
    /\ ~renderPending
    /\ marked \cap StoreIDs # {}
    /\ predictionCache # EmptyCache
    /\ model.fitted

\* a predict call is running while another one is suspended in error()
NestedCall ==
    /\ exc = "DatabaseError"
    /\ pc \in {"predict", "train", "dump", "writeConfig", "predictAll", "dirty", "return"}

\* C16 as stated: the predict calls on the instance are serialized; no
\* predict call, from a deferred renderTable callback or from a direct call,
\* ever starts while another one has not finished.
C16_PredictCallsSerialized == ~NestedCall

\* C17: a query of predict that fails is fatal: nothing is assigned, the
\* call is suspended in the box of error() and never resumes, the query is not
\* sent again by it, no mapping is returned for it, and from then on the
\* process serves no handler and ends with sys.exit(1) when the box is closed.
C17_QueryFailureIsFatal ==
    /\ [][queryFails =>
            /\ pc' = "errorBox"
            /\ exc' = "DatabaseError"
            /\ UNCHANGED <<store, model, predictionCache, modelConfig, modelPkl,
                           fetchLog, prev>>]_vars
    /\ [][(pc = "errorBox" /\ ~Restart /\ ~timerFires) =>
            /\ pc' = "crashed"
            /\ exc' = "SystemExit"
            /\ UNCHANGED <<store, model, predictionCache, modelConfig, modelPkl,
                           fetchLog, prev>>]_vars
    /\ [][(exc = "DatabaseError" /\ ~Restart) => exc' # "none"]_vars
    /\ [](exc # "none" => pc # "idle")

\* C17 witness: the process has ended with sys.exit(1) after the fetch of all
\* features failed in a call that had retrained.
C17_Witness ==
    /\ pc = "crashed"
    /\ exc = "SystemExit"
    /\ path = "retrain"
    /\ fetchLog.train
    /\ ~fetchLog.all
    /\ model.fitted
    /\ modelConfig.dbChangeCounter = 0

\* one of the queries of the running call has returned no row
EmptyResultSeen ==
    \/ (fetchLog.train \/ fetchLog.all) /\ StoreIDs = {}
    \/ fetchLog.byIDs # {} /\ fetchLog.byIDs \cap StoreIDs = {}

\* C18 as stated: a query of predict that returns no row, the fetch of
\* features and labels, the fetch of all features or the fetch by ids, lets
\* predict go on without raising.
C18_EmptyResultTolerated ==
    EmptyResultSeen => exc \notin {"ValueError", "KeyError"}

\* the rows of the jobs table a step inserts, deletes or changes
Affected ==
    ((DOMAIN store') \ DOMAIN store) \cup ((DOMAIN store) \ DOMAIN store')
        \cup {id \in (DOMAIN store) \cap DOMAIN store' : store'[id] # store[id]}

\* C19 as stated: every step that inserts rows, deletes rows or changes a
\* feature or the label of a row (the wholesale clear apart, which resets)
\* adds the number of affected rows to the persisted dbChangeCounter.
C19_EveryMutationNotifiesCount ==
    [][(store' # store /\ ~handleClearDb /\ ~ConfigReadRaises(modelConfig)) =>
         modelConfig' = Incremented(modelConfig, Cardinality(Affected))]_vars

\* C20: the ids of the cache are ids of the jobs table in every state, so a
\* call that returns values returns them for rows of the table only, never
\* for an id that was deleted.
C20_NoStaleEntries ==
    /\ DOMAIN predictionCache \subseteq StoreIDs
    /\ (pc = "return" /\ requestedIDs \subseteq DOMAIN predictionCache)
          => requestedIDs \subseteq StoreIDs

\* C20 witness: a call is at its return step with cached values while an id
\* that was marked dirty is no longer a row of the table.
C20_Witness ==
    /\ pc = "return"
    /\ path = "incremental"
    /\ marked \ StoreIDs # {}
    /\ requestedIDs # {}
    /\ requestedIDs \subseteq DOMAIN predictionCache

\* C21: the persisted record is never a partial one: whenever
\* modelConfig.json exists it holds a whole {dbChangeCounter,
\* lastTrainedRowCount} pair, also after a process ended during or between
\* the writes and the program started again.
C21_RecordNeverPartial ==
    (pc = "idle" /\ modelConfig.exists) =>
        /\ modelConfig.dbChangeCounter >= 0
        /\ modelConfig.lastTrainedRowCount >= 0

\* C22: a committed edit of the pay adds 1 to dbChangeCounter and leaves
\* the cache as it is; a committed edit of the job type or of the hours
\* worked adds 1 and removes the cache entry of the edited id and of no
\* other; an edit of the date or of the name, and an edit the error
\* checkings reject, change neither the counter nor the cache.
C22_EditSiteAsymmetry ==
    /\ [][\A id \in IDs : \A col \in Columns : \A v \in EditValues(col) :
            (sqlUpdateActions(id, col, v) /\ ~ConfigReadRaises(modelConfig)) =>
               /\ col = "pay" =>
                     /\ modelConfig'.dbChangeCounter = modelConfig.dbChangeCounter + 1
                     /\ modelConfig'.lastTrainedRowCount = modelConfig.lastTrainedRowCount
                     /\ predictionCache' = predictionCache
               /\ col \in {"job_type", "hours_worked"} =>
                     /\ modelConfig'.dbChangeCounter = modelConfig.dbChangeCounter + 1
                     /\ modelConfig'.lastTrainedRowCount = modelConfig.lastTrainedRowCount
                     /\ DOMAIN predictionCache' = DOMAIN predictionCache \ {id}
                     /\ \A i \in DOMAIN predictionCache' :
                           predictionCache'[i] = predictionCache[i]
               /\ col \in {"job_date", "job_name"} =>
                     /\ modelConfig' = modelConfig
                     /\ predictionCache' = predictionCache]_vars
    /\ [][sqlUpdateRejected =>
            /\ store' = store
            /\ modelConfig' = modelConfig
            /\ predictionCache' = predictionCache]_vars

\* C22 witness: an edit that counted has just been committed and the table
\* is about to be drawn again, every row still having its cache entry while
\* the labels are no longer the ones the model was fitted on: the edit was
\* of a pay.
C22_Witness ==
    /\ pc = "idle"
    /\ renderPending
    /\ prev = NoCall
    /\ marked = {}
    /\ modelConfig.dbChangeCounter = 1
    /\ StoreIDs # {}
    /\ DOMAIN predictionCache = StoreIDs
    /\ model.fitted
    /\ model.trainedOn # TrainingFrame(store)

\* C23: on the incremental path (a model is held, no retrain is due)
\* predict asks the table for the features of exactly the requested ids
\* that are not cached, and for nothing when all are cached; it writes
\* cache entries for those ids only and leaves every other entry as it
\* was; the model, model.pkl and modelConfig.json are not changed.
C23_IncrementalPathFrame ==
    /\ [][(predict /\ path' = "incremental") =>
            /\ model' = model
            /\ model.fitted
            /\ modelConfig' = modelConfig
            /\ modelPkl' = modelPkl
            /\ predictionCache' = predictionCache
            /\ fetchLog' = NoFetch]_vars
    /\ [][predictAndCacheDirtyIDs =>
            /\ path = "incremental"
            /\ model' = model
            /\ modelConfig' = modelConfig
            /\ modelPkl' = modelPkl
            /\ fetchLog' = [train |-> FALSE, all |-> FALSE,
                            byIDs |-> requestedIDs \ DOMAIN predictionCache]
            /\ DOMAIN predictionCache \subseteq DOMAIN predictionCache'
            /\ DOMAIN predictionCache' \subseteq
                  DOMAIN predictionCache \cup (requestedIDs \ DOMAIN predictionCache)
            /\ \A id \in DOMAIN predictionCache :
                  predictionCache'[id] = predictionCache[id]]_vars
    /\ [][(return /\ path = "incremental") =>
            /\ model' = model
            /\ modelConfig' = modelConfig
            /\ modelPkl' = modelPkl
            /\ predictionCache' = predictionCache]_vars
    /\ []((pc = "return" /\ path = "incremental") =>
            fetchLog = [train |-> FALSE, all |-> FALSE,
                        byIDs |-> requestedIDs \ entry.cached])

\* C23 witness: a call on the incremental path has fetched one id and is
\* about to return, the entry of a row it was not asked for still cached.
C23_Witness ==
    /\ pc = "return"
    /\ path = "incremental"
    /\ exc = "none"
    /\ fetchLog.byIDs # {}
    /\ DOMAIN predictionCache \ requestedIDs # {}

\* C24: when the retrain path or the cold-start path of predict has run up
\* to the final return step, the keys of the cache are exactly the ids of
\* the jobs table, rows without a pay included, and every entry is what the
\* model now held predicts for its row; with an empty table the cache is
\* empty.
C24_FullReplacement ==
    (pc = "return" /\ path \in {"retrain", "cold"}) =>
        /\ fetchLog.all
        /\ DOMAIN predictionCache = StoreIDs
        /\ \A id \in DOMAIN predictionCache : Fresh(id)
        /\ StoreIDs # {} => model.fitted

\* C24 witness: a retrain is about to return; the requested row was cached
\* when the call came in, one row of the table has no pay, and every row
\* has an entry.
C24_Witness ==
    /\ pc = "return"
    /\ path = "retrain"
    /\ exc = "none"
    /\ entry.cached # {}
    /\ \E id \in StoreIDs : store[id].pay = NULL
    /\ DOMAIN predictionCache = StoreIDs

\* C25: with no model in memory, no retrain due and a model.pkl that
\* loads, predict takes the model from the file without fitting and without
\* fetching labels, leaves dbChangeCounter and lastTrainedRowCount as they
\* were, and then fills the cache with predictions for every row; the
\* record is rewritten by _train only after a fit.
C25_ColdStartLoadsArtifact ==
    /\ [][(/\ predict
           /\ ~GuardClause(requestedIDs)
           /\ ~ConfigReadRaises(modelConfig)
           /\ ~RetrainDue(ReadModelConfig(modelConfig))
           /\ model = None
           /\ modelPkl.exists
           /\ ~PklLoadRaises(modelPkl)) =>
            /\ pc' = "predictAll"
            /\ path' = "cold"
            /\ model' = modelPkl.content
            /\ model'.fitted
            /\ modelPkl' = modelPkl
            /\ fetchLog' = NoFetch
            /\ modelConfig'.dbChangeCounter = modelConfig.dbChangeCounter
            /\ modelConfig'.lastTrainedRowCount = modelConfig.lastTrainedRowCount]_vars
    /\ [][(path = "cold" /\ ~fetchLog.train /\ (predictAndCacheEverything \/ return)) =>
            /\ model' = model
            /\ modelPkl' = modelPkl
            /\ modelConfig' = modelConfig]_vars
    /\ []((pc = "return" /\ path = "cold" /\ ~fetchLog.train) =>
            /\ model = modelPkl.content
            /\ fetchLog = [train |-> FALSE, all |-> TRUE, byIDs |-> {}]
            /\ DOMAIN predictionCache = StoreIDs
            /\ \A id \in StoreIDs : Fresh(id))
    /\ [][writeConfig => (fetchLog.train /\ model = Fit(TrainingFrame(store)))]_vars

\* C25 witness: a cold start that loaded model.pkl is about to return, the
\* record still holding the row count of the fit that wrote the file.
C25_Witness ==
    /\ pc = "return"
    /\ path = "cold"
    /\ exc = "none"
    /\ ~fetchLog.train
    /\ fetchLog.all
    /\ StoreIDs # {}
    /\ modelConfig.lastTrainedRowCount > 0
    /\ model = modelPkl.content

\* C26: the retrain check comes before the check for a missing model: with
\* a retrain due and no model in memory predict goes to _train and does not
\* load model.pkl, whatever is on disk; and every call that gets past the
\* guard clause and the read of modelConfig.json runs exactly one of the
\* three paths, which its queries show at the return step.
C26_PathPriority ==
    /\ [][(predict /\ ~GuardClause(requestedIDs) /\ LoadAboveThreshold /\ model = None) =>
            /\ path' = "retrain"
            /\ pc' = "train"
            /\ model' = None
            /\ exc' = exc]_vars
    /\ [][(predict /\ ~GuardClause(requestedIDs) /\ ~ConfigReadRaises(modelConfig)) =>
            /\ path = "none"
            /\ path' \in {"retrain", "cold", "incremental"}]_vars
    /\ [][(train \/ dump \/ writeConfig \/ predictAndCacheEverything
              \/ predictAndCacheDirtyIDs) =>
            /\ path \in {"retrain", "cold", "incremental"}
            /\ path' = path]_vars
    /\ [](pc \in {"train", "dump", "writeConfig", "predictAll"} =>
            path \in {"retrain", "cold"})
    /\ [](pc = "dirty" => path = "incremental")
    /\ [](pc = "return" =>
            /\ path = "retrain" =>
                  fetchLog = [train |-> TRUE, all |-> TRUE, byIDs |-> {}]
            /\ path = "cold" => (fetchLog.all /\ fetchLog.byIDs = {})
            /\ path = "incremental" => (~fetchLog.train /\ ~fetchLog.all)
            /\ path # "none")

\* C26 witness: the first predict after a restart found a retrain due and a
\* model.pkl that would load, and is in _train with no model loaded.
C26_Witness ==
    /\ pc = "train"
    /\ path = "retrain"
    /\ exc = "none"
    /\ model = None
    /\ modelPkl.exists
    /\ modelPkl.content.fitted
    /\ LoadAboveThreshold

Labels ==
    LET df == FetchFeaturesAndLabel(store)
    IN [i \in 1..Len(df) |-> df[i].pay]

\* the log pays of the rows whose pay is neither missing nor zero
PaidLogs ==
    LET present(p) == p # NULL /\ p[1] # 0
        paid == SelectSeq(Labels, present)
    IN [i \in 1..Len(paid) |-> Log10(paid[i][1])]

\* l lies in [Q1 - 1.5 IQR, Q3 + 1.5 IQR] of PaidLogs (all taken 8 times)
WithinFences(l) ==
    LET Q1 == Quantile4(PaidLogs, 1)
        Q3 == Quantile4(PaidLogs, 3)
    IN /\ 8 * l >= 2 * Q1 - 3 * (Q3 - Q1)
       /\ 8 * l <= 2 * Q3 + 3 * (Q3 - Q1)

C29_CacheImpliesModel ==
    /\ predictionCache # EmptyCache => (model # None /\ model.fitted)
    /\ model = None => DOMAIN predictionCache = {}

\* C29 witness: entries are cached and a model is held although no row of
\* the table has a pay to fit on any more: the retrain that was due was
\* skipped and the model of the earlier fit was kept.
C29_Witness ==
    /\ pc = "idle"
    /\ exc = "none"
    /\ StoreIDs # {}
    /\ DOMAIN predictionCache = StoreIDs
    /\ TrainingFrame(store) = << >>
    /\ model.fitted
    /\ prev.valid

\* C30 as stated: whenever the program is at rest with a model.pkl on disk
\* and a modelConfig.json that can be read, the lastTrainedRowCount in it
\* is at least 1, also after a restart that came between the write of
\* model.pkl and the write of modelConfig.json.
C30_ArtifactImpliesRowCount ==
    (pc = "idle" /\ modelPkl.exists /\ ~ConfigReadRaises(modelConfig)) =>
        /\ modelConfig.exists
        /\ modelConfig.lastTrainedRowCount >= 1

====
